---------------------------- MODULE Spec2Model ----------------------------
(***************************************************************************)
(* armada: construction of the scanner's configuration record              *)
(* (src/armada/src/args.rs).                                               *)
(*                                                                         *)
(* get_armada_config is a straight-line program: it parses the command     *)
(* line, optionally replaces the parsed arguments by the ones derived from *)
(* a TOML file, evaluates ten getters in a fixed order and returns an      *)
(* ArmadaConfig.  Every getter may panic, and the argument parser may exit *)
(* the process.  The model is that program, one action per statement of    *)
(* get_armada_config, with the call logs of the two iterators              *)
(* (HostIterator, PortIterator) as the value of `targets` and `ports`.     *)
(*                                                                         *)
(* Text is modelled as a sequence of one-character strings, so that the    *)
(* regular expression of get_ports and the integer and address parsers are *)
(* computed character by character.                                        *)
(***************************************************************************)
EXTENDS Integers, Sequences, FiniteSets, TLC

(***************************************************************************)
(* Option<T> and Result<T, E>.                                             *)
(***************************************************************************)
None == <<>>

Some(v) == <<v>>

IsSome(o) == Len(o) = 1

Unwrap(o) == o[1]

Ok(v) == [ok |-> TRUE, val |-> v]

Err == [ok |-> FALSE]

\* The run ends at this line of args.rs: a panic, or clap's usage error.
Fail(line) == [ok |-> FALSE, line |-> line]

(***************************************************************************)
(* Characters.  \d of the regex crate is Unicode-aware: it matches every   *)
(* decimal digit of Unicode (class Nd), of which "u0663" (ARABIC-INDIC     *)
(* DIGIT THREE) stands here; the integer parsers of the standard library   *)
(* accept ASCII digits only.                                               *)
(***************************************************************************)
AsciiDigits == <<"0", "1", "2", "3", "4", "5", "6", "7", "8", "9">>

IsAsciiDigit(c) == \E i \in 1..10 : AsciiDigits[i] = c

DigitVal(c) == (CHOOSE i \in 1..10 : AsciiDigits[i] = c) - 1

IsRegexDigit(c) == IsAsciiDigit(c) \/ c = "u0663"

AllAsciiDigits(s) == \A i \in 1..Len(s) : IsAsciiDigit(s[i])

AllRegexDigits(s) == \A i \in 1..Len(s) : IsRegexDigit(s[i])

\* Positions of the character c in s, and the pieces of s between them
\* (str::split).
RECURSIVE Split(_, _)
Split(s, c) ==
    IF \A i \in 1..Len(s) : s[i] # c
    THEN <<s>>
    ELSE LET k == CHOOSE i \in 1..Len(s) :
                      s[i] = c /\ \A j \in 1..(i - 1) : s[j] # c
         IN  <<SubSeq(s, 1, k - 1)>> \o Split(SubSeq(s, k + 1, Len(s)), c)

(***************************************************************************)
(* str::parse::<uN>(): an optional leading "+", then at least one ASCII    *)
(* digit and nothing else; the value is accumulated digit by digit and the *)
(* parse fails as soon as it leaves the type's range.                      *)
(***************************************************************************)
U8_MAX == 255

U16_MAX == 65535

RECURSIVE Accumulate(_, _, _)
Accumulate(digits, acc, max) ==
    IF digits = <<>> THEN Ok(acc)
    ELSE LET c == Head(digits)
         IN  IF ~IsAsciiDigit(c) THEN Err
             ELSE IF acc * 10 + DigitVal(c) > max THEN Err
             ELSE Accumulate(Tail(digits), acc * 10 + DigitVal(c), max)

Unsigned(s) == IF s # <<>> /\ Head(s) = "+" THEN Tail(s) ELSE s

ParseUnsigned(s, max) ==
    IF s = <<>> \/ Unsigned(s) = <<>> THEN Err
    ELSE Accumulate(Unsigned(s), 0, max)

ParseU8(s) == ParseUnsigned(s, U8_MAX)

ParseU16(s) == ParseUnsigned(s, U16_MAX)

(***************************************************************************)
(* usize and u64 are 64 bits wide; 2^64 - 1 is compared as a decimal       *)
(* numeral, since it is wider than the integers of the model checker.      *)
(* The value of an accepted numeral is computed in those integers: the     *)
(* inputs below hold, besides the rejected texts, values below 2^31 only.  *)
(***************************************************************************)
U64_MAX_DIGITS ==
    <<"1", "8", "4", "4", "6", "7", "4", "4", "0", "7",
      "3", "7", "0", "9", "5", "5", "1", "6", "1", "5">>

RECURSIVE StripZeros(_)
StripZeros(s) ==
    IF Len(s) > 1 /\ Head(s) = "0" THEN StripZeros(Tail(s)) ELSE s

RECURSIVE NumeralGreater(_, _)
\* a > b for two numerals of the same length
NumeralGreater(a, b) ==
    IF a = <<>> THEN FALSE
    ELSE IF DigitVal(Head(a)) # DigitVal(Head(b))
         THEN DigitVal(Head(a)) > DigitVal(Head(b))
         ELSE NumeralGreater(Tail(a), Tail(b))

ExceedsU64(digits) ==
    LET n == StripZeros(digits)
    IN  \/ Len(n) > Len(U64_MAX_DIGITS)
        \/ Len(n) = Len(U64_MAX_DIGITS) /\ NumeralGreater(n, U64_MAX_DIGITS)

ParseU64(s) ==
    IF s = <<>> \/ Unsigned(s) = <<>> THEN Err
    ELSE IF ~AllAsciiDigits(Unsigned(s)) THEN Err
    ELSE IF ExceedsU64(Unsigned(s)) THEN Err
    ELSE Accumulate(StripZeros(Unsigned(s)), 0, 2147483647)

ParseUsize(s) == ParseU64(s)

(***************************************************************************)
(* IpAddr::from_str, for the dotted-quad grammar of IPv4: four decimal     *)
(* fields of one to three ASCII digits, each at most 255 and without a     *)
(* leading zero.  IpCidr::from_str, for the form address/length with a     *)
(* length of 0..32.  (IPv6 text and the other notations the two parsers    *)
(* accept are outside the inputs of the model.)                            *)
(***************************************************************************)
ParseOctet(s) ==
    IF Len(s) < 1 \/ Len(s) > 3 \/ ~AllAsciiDigits(s) THEN Err
    ELSE IF Len(s) > 1 /\ Head(s) = "0" THEN Err
    ELSE Accumulate(s, 0, U8_MAX)

ParseIpAddr(s) ==
    LET parts == Split(s, ".")
    IN  IF Len(parts) # 4 THEN Err
        ELSE IF \E i \in 1..4 : ~ParseOctet(parts[i]).ok THEN Err
        ELSE Ok([i \in 1..4 |-> ParseOctet(parts[i]).val])

ParsePrefixLen(s) ==
    IF Len(s) < 1 \/ ~AllAsciiDigits(s) THEN Err
    ELSE Accumulate(s, 0, 32)

ParseIpCidr(s) ==
    LET parts == Split(s, "/")
    IN  IF Len(parts) # 2 THEN Err
        ELSE IF ~ParseIpAddr(parts[1]).ok \/ ~ParsePrefixLen(parts[2]).ok THEN Err
        ELSE Ok([prefix |-> ParseIpAddr(parts[1]).val,
                 bits |-> ParsePrefixLen(parts[2]).val])


(***************************************************************************)
(* The port lists of crate::ranges, each one comma-separated text.  The    *)
(* lists themselves are not part of args.rs; two short lists of the same   *)
(* form (single ports and ranges) stand for them.                          *)
(***************************************************************************)
TOP_100 == <<"7", ",", "9", ",", "2", "1", "-", "2", "3">>

TOP_1000 == <<"1", ",", "3", "-", "4", ",", "6", "-", "7", ",", "9">>

DEFAULT_RATE_LIMIT == 10000

DEFAULT_PORT_RETRY == 2

DEFAULT_TIMEOUT_IN_MS == 1000

(***************************************************************************)
(* Bounds of the model: the longest list of targets, of ports and of       *)
(* source addresses an input holds.                                        *)
(***************************************************************************)
MaxTargets == 2

MaxPorts == 2

MaxSourceIps == 1

SeqsUpTo(S, n) == UNION {[1..k -> S] : k \in 0..n}

NonEmptySeqsUpTo(S, n) == UNION {[1..k -> S] : k \in 1..n}

(***************************************************************************)
(* The texts the inputs are drawn from.                                    *)
(***************************************************************************)
TargetTexts ==
    { <<"1", "0", ".", "0", ".", "0", ".", "1">>,
      <<"1", "0", ".", "0", ".", "0", ".", "0", "/", "8">>,
      <<"1", ".", "2", ".", "3", ".", "4", "/", "3", "2">>,
      <<"1", "0", ".", "0", ".", "0", ".", "2", "5", "6">>,
      <<"1", "0", ".", "0", ".", "0", ".", "0", "/", "3", "3">>,
      <<>>,
      <<"x">> }

PortTexts ==
    { <<"8", "0">>,
      <<"0">>,
      <<"6", "5", "5", "3", "5">>,
      <<"6", "5", "5", "3", "6">>,
      <<"1", "-", "3">>,
      <<"5", "-", "5">>,
      <<"1", "0", "0", "-", "5", "0">>,
      <<>>,
      <<"8", "0", "-">>,
      <<"-", "8", "0">>,
      <<"+", "8", "0">>,
      <<"u0663">>,
      <<"1", "-", "6", "5", "5", "3", "6">> }

RateLimitTexts ==
    { <<"0">>,
      <<"0", "0">>,
      <<"1">>,
      <<"+", "5">>,
      <<"1", "0", "0", "0", "0">>,
      <<"-", "1">>,
      <<>>,
      <<"x">>,
      <<"1", "8", "4", "4", "6", "7", "4", "4", "0", "7", "3", "7", "0", "9", "5", "5", "1", "6", "1", "6">> }

RetriesTexts ==
    { <<"0">>,
      <<"2">>,
      <<"2", "5", "5">>,
      <<"2", "5", "6">>,
      <<"-", "1">>,
      <<"x">> }

TimeoutTexts ==
    { <<"0">>,
      <<"2", "5", "0">>,
      <<"x">>,
      <<"1", "8", "4", "4", "6", "7", "4", "4", "0", "7", "3", "7", "0", "9", "5", "5", "1", "6", "1", "6">> }

ListeningPortTexts ==
    { <<"0">>,
      <<"5", "5", "5", "5", "5">>,
      <<"6", "5", "5", "3", "5">>,
      <<"6", "5", "5", "3", "6">>,
      <<"x">> }

SourceIpTexts ==
    { <<"1", "0", ".", "0", ".", "0", ".", "9">>,
      <<":", ":", "g">>,
      <<"1", "0", ".", "0", ".", "0", ".", "0", "/", "8">> }

OutputFormats == {"default", "csv", "json"}

\* A line of standard input: text, or an error (bytes that are not UTF-8).
StdinLines == {Ok(t) : t \in TargetTexts} \cup {Err}

Ip1 == <<"1", "0", ".", "0", ".", "0", ".", "1">>

Port80 == <<"8", "0">>

Port55555 == <<"5", "5", "5", "5", "5">>

(***************************************************************************)
(* The arguments of app_config, as the user gives them: an option that     *)
(* takes a value is None or Some(value), a flag is a boolean.  --targets   *)
(* and --ports hold a non-empty list of values (split at ","),             *)
(* --source-ip one value per occurrence.                                   *)
(***************************************************************************)
NoArgs ==
    [targets |-> None, target_file |-> None, ports |-> None, quiet |-> FALSE,
     listening_port |-> None, output_format |-> None, rate_limit |-> None,
     retries |-> None, timeout |-> None, source_ip |-> None,
     top100 |-> FALSE, top1000 |-> FALSE, toml_config |-> None,
     stream |-> FALSE, sanic |-> FALSE]

(***************************************************************************)
(* What clap enforces before get_matches returns: the group scan_targets   *)
(* admits one of its members, --ports conflicts with --top100 and          *)
(* --top1000, --top100 conflicts with --top1000, and --ports is required   *)
(* unless one of --top100, --top1000, --toml-config is present.            *)
(***************************************************************************)
app_config(a) ==
    /\ ~(IsSome(a.targets) /\ IsSome(a.target_file))
    /\ ~(IsSome(a.ports) /\ (a.top100 \/ a.top1000))
    /\ ~(a.top100 /\ a.top1000)
    /\ IsSome(a.ports) \/ a.top100 \/ a.top1000 \/ IsSome(a.toml_config)

\* Command::get_matches_from: the parsed arguments, output_format defaulted,
\* or a usage error (the process exits).
get_matches_from(a) ==
    IF app_config(a)
    THEN Ok([a EXCEPT !.output_format =
                 IF IsSome(a.output_format) THEN a.output_format
                 ELSE Some("default")])
    ELSE Err

\* crate::config::get_toml_config: the argument list the TOML file stands
\* for; env.toml is None when the file cannot be read as one.
get_toml_config(path, e) == IF IsSome(e.toml) THEN Ok(Unwrap(e.toml)) ELSE Err

(***************************************************************************)
(* HostIterator and PortIterator, as the sequence of registrations made.   *)
(***************************************************************************)
add_ip(host_iterator, ip_addr) ==
    Append(host_iterator, [op |-> "add_ip", ip |-> ip_addr])

add_cidr(host_iterator, cidr) ==
    Append(host_iterator, [op |-> "add_cidr", cidr |-> cidr])

add_port(port_iterator, port) ==
    Append(port_iterator, [op |-> "add_port", port |-> port])

add_range(port_iterator, start_port, end_port) ==
    Append(port_iterator,
           [op |-> "add_range", start |-> start_port, end |-> end_port])

(***************************************************************************)
(* get_targets                                                             *)
(***************************************************************************)
RECURSIVE FilterMapOk(_)
FilterMapOk(lines) ==
    IF lines = <<>> THEN <<>>
    ELSE IF Head(lines).ok
         THEN <<Head(lines).val>> \o FilterMapOk(Tail(lines))
         ELSE FilterMapOk(Tail(lines))

\* let targets: Vec<String> = ...
TargetStrings(m, e) ==
    IF IsSome(m.targets) THEN Ok(Unwrap(m.targets))
    ELSE IF IsSome(m.target_file)
         THEN IF IsSome(e.file) THEN Ok(Unwrap(e.file)) ELSE Fail(77)
         ELSE Ok(FilterMapOk(e.stdin))

\* a faulty variant of the closure: the new registration goes to the front
RegisterTarget_Prepend(host_iterator, target_str) ==
    IF ParseIpAddr(target_str).ok
    THEN Ok(<<[op |-> "add_ip", ip |-> ParseIpAddr(target_str).val]>>
                \o host_iterator)
    ELSE IF ParseIpCidr(target_str).ok
         THEN Ok(<<[op |-> "add_cidr", cidr |-> ParseIpCidr(target_str).val]>>
                     \o host_iterator)
         ELSE Fail(93)

\* the closure of the fold
RegisterTarget(host_iterator, target_str) ==
    IF ParseIpAddr(target_str).ok
    THEN Ok(add_ip(host_iterator, ParseIpAddr(target_str).val))
    ELSE IF ParseIpCidr(target_str).ok
         THEN Ok(add_cidr(host_iterator, ParseIpCidr(target_str).val))
         ELSE Fail(93)

RECURSIVE FoldTargets(_, _)
FoldTargets(host_iterator, strs) ==
    IF strs = <<>> THEN Ok(host_iterator)
    ELSE LET r == RegisterTarget(host_iterator, Head(strs))
         IN  IF r.ok THEN FoldTargets(r.val, Tail(strs)) ELSE r

get_targets(m, e) ==
    IF TargetStrings(m, e).ok
    THEN FoldTargets(<<>>, TargetStrings(m, e).val)
    ELSE TargetStrings(m, e)

(***************************************************************************)
(* get_ports                                                               *)
(***************************************************************************)
\* a faulty variant: without --ports, --top100 and --top1000 the TOP_1000
\* list is scanned instead of panicking
PortStrings_DefaultTop1000(m) ==
    IF IsSome(m.ports) THEN Ok(Unwrap(m.ports))
    ELSE IF m.top100 THEN Ok(Split(TOP_100, ","))
    ELSE Ok(Split(TOP_1000, ","))

\* let port_strings: Vec<String> = match (user_port_string, top_100_flag, top_1000_flag)
PortStrings(m) ==
    IF IsSome(m.ports) THEN Ok(Unwrap(m.ports))
    ELSE IF m.top100 THEN Ok(Split(TOP_100, ","))
    ELSE IF m.top1000 THEN Ok(Split(TOP_1000, ","))
    ELSE Fail(113)

\* ^(\d+)(?:-(\d+))?$ : the two capture groups, or no match
Captures(port_str) ==
    LET parts == Split(port_str, "-")
        Digits(t) == t # <<>> /\ AllRegexDigits(t)
    IN  IF Len(parts) = 1 /\ Digits(parts[1])
        THEN Ok([g1 |-> Some(parts[1]), g2 |-> None])
        ELSE IF Len(parts) = 2 /\ Digits(parts[1]) /\ Digits(parts[2])
             THEN Ok([g1 |-> Some(parts[1]), g2 |-> Some(parts[2])])
             ELSE Err

\* a faulty variant of the closure: the two ends of a range are exchanged
RegisterPort_EndsExchanged(port_iterator, port_str) ==
    LET capture == Captures(port_str)
    IN  IF ~capture.ok THEN Fail(123)
        ELSE LET g1 == capture.val.g1
                 g2 == capture.val.g2
             IN  IF IsSome(g1) /\ ~ParseU16(Unwrap(g1)).ok THEN Fail(128)
                 ELSE IF IsSome(g2) /\ ~ParseU16(Unwrap(g2)).ok THEN Fail(134)
                 ELSE IF IsSome(g1) /\ IsSome(g2)
                      THEN Ok(add_range(port_iterator,
                                        ParseU16(Unwrap(g2)).val,
                                        ParseU16(Unwrap(g1)).val))
                 ELSE IF IsSome(g1)
                      THEN Ok(add_port(port_iterator, ParseU16(Unwrap(g1)).val))
                 ELSE Fail(140)

\* the closure of the fold
RegisterPort(port_iterator, port_str) ==
    LET capture == Captures(port_str)
    IN  IF ~capture.ok THEN Fail(123)
        ELSE LET g1 == capture.val.g1
                 g2 == capture.val.g2
             IN  IF IsSome(g1) /\ ~ParseU16(Unwrap(g1)).ok THEN Fail(128)
                 ELSE IF IsSome(g2) /\ ~ParseU16(Unwrap(g2)).ok THEN Fail(134)
                 ELSE IF IsSome(g1) /\ IsSome(g2)
                      THEN Ok(add_range(port_iterator,
                                        ParseU16(Unwrap(g1)).val,
                                        ParseU16(Unwrap(g2)).val))
                 ELSE IF IsSome(g1)
                      THEN Ok(add_port(port_iterator, ParseU16(Unwrap(g1)).val))
                 ELSE Fail(140)

RECURSIVE FoldPorts(_, _)
FoldPorts(port_iterator, strs) ==
    IF strs = <<>> THEN Ok(port_iterator)
    ELSE LET r == RegisterPort(port_iterator, Head(strs))
         IN  IF r.ok THEN FoldPorts(r.val, Tail(strs)) ELSE r

get_ports(m) ==
    IF PortStrings(m).ok THEN FoldPorts(<<>>, PortStrings(m).val)
    ELSE PortStrings(m)

(***************************************************************************)
(* The other getters.                                                      *)
(***************************************************************************)
get_quiet_mode(m) == Ok(m.quiet)

\* a faulty variant: the arm for an explicit 0 is missing
get_rate_limit_ZeroKept(m) ==
    LET rate_limit == IF IsSome(m.rate_limit)
                      THEN ParseUsize(Unwrap(m.rate_limit))
                      ELSE Ok(None)
    IN  IF ~rate_limit.ok THEN Fail(153)
        ELSE IF m.sanic THEN Ok(None)
        ELSE IF IsSome(m.rate_limit) THEN Ok(Some(rate_limit.val))
        ELSE Ok(Some(DEFAULT_RATE_LIMIT))

get_rate_limit(m) ==
    LET rate_limit == IF IsSome(m.rate_limit)
                      THEN ParseUsize(Unwrap(m.rate_limit))
                      ELSE Ok(None)
    IN  IF ~rate_limit.ok THEN Fail(153)
        ELSE IF m.sanic THEN Ok(None)
        ELSE IF IsSome(m.rate_limit) /\ rate_limit.val = 0 THEN Ok(None)
        ELSE IF IsSome(m.rate_limit) THEN Ok(Some(rate_limit.val))
        ELSE Ok(Some(DEFAULT_RATE_LIMIT))

\* rand::thread_rng().gen_range(low..high): the half-open range
gen_range(low, high) == low..(high - 1)

\* every outcome get_listening_port can have
get_listening_port(m) ==
    IF IsSome(m.listening_port)
    THEN {IF ParseU16(Unwrap(m.listening_port)).ok
          THEN ParseU16(Unwrap(m.listening_port)) ELSE Fail(170)}
    ELSE {Ok(p) : p \in gen_range(50000, 60000)}

get_output_format(m) ==
    IF IsSome(m.output_format) THEN Ok(Unwrap(m.output_format)) ELSE Fail(176)

\* a faulty variant: --sanic overrides an explicit --retries
get_retries_SanicFirst(m) ==
    IF IsSome(m.retries) /\ ~ParseU8(Unwrap(m.retries)).ok THEN Fail(185)
    ELSE IF m.sanic THEN Ok(0)
    ELSE IF IsSome(m.retries) THEN ParseU8(Unwrap(m.retries))
    ELSE Ok(DEFAULT_PORT_RETRY)

get_retries(m) ==
    IF IsSome(m.retries)
    THEN IF ParseU8(Unwrap(m.retries)).ok
         THEN ParseU8(Unwrap(m.retries)) ELSE Fail(185)
    ELSE IF m.sanic THEN Ok(0)
    ELSE Ok(DEFAULT_PORT_RETRY)

\* a faulty variant: a timeout that does not parse is replaced by the default
get_timeout_Defaulting(m) ==
    IF IsSome(m.timeout) /\ ParseU64(Unwrap(m.timeout)).ok
    THEN ParseU64(Unwrap(m.timeout))
    ELSE Ok(DEFAULT_TIMEOUT_IN_MS)

\* the Duration, in milliseconds
get_timeout(m) ==
    IF IsSome(m.timeout)
    THEN IF ParseU64(Unwrap(m.timeout)).ok
         THEN ParseU64(Unwrap(m.timeout)) ELSE Fail(197)
    ELSE Ok(DEFAULT_TIMEOUT_IN_MS)

get_source_ip_addresses(m) ==
    IF ~IsSome(m.source_ip) THEN Ok(None)
    ELSE LET values == Unwrap(m.source_ip)
         IN  IF \E i \in 1..Len(values) : ~ParseIpAddr(values[i]).ok THEN Fail(207)
             ELSE Ok(Some([i \in 1..Len(values) |-> ParseIpAddr(values[i]).val]))

get_stream_results(m) == Ok(m.stream)

(***************************************************************************)
(* The inputs of a run: the command line, and the environment the run      *)
(* reads (the lines of standard input, the lines of the target file or     *)
(* None when it cannot be opened, whether standard output is a terminal,   *)
(* the argument list of the TOML file).  Each family varies one group of   *)
(* arguments around BaseArgs.                                              *)
(***************************************************************************)
BaseArgs ==
    [NoArgs EXCEPT !.targets = Some(<<Ip1>>), !.ports = Some(<<Port80>>),
                   !.listening_port = Some(Port55555)]

BaseEnv == [stdin |-> <<>>, file |-> None, tty |-> TRUE, toml |-> None]

Input(a, e) == [argv |-> a, env |-> e]

OptionOf(S) == {None} \cup {Some(v) : v \in S}

TargetInputs ==
    {Input([BaseArgs EXCEPT !.targets = Some(ts)], BaseEnv) :
        ts \in NonEmptySeqsUpTo(TargetTexts, MaxTargets)}
    \cup
    {Input([BaseArgs EXCEPT !.targets = None, !.target_file = Some("targets.txt")],
           [BaseEnv EXCEPT !.file = f, !.stdin = <<Ok(Ip1)>>]) :
        f \in OptionOf(SeqsUpTo(TargetTexts, MaxTargets))}
    \cup
    {Input([BaseArgs EXCEPT !.targets = None], [BaseEnv EXCEPT !.stdin = ls]) :
        ls \in SeqsUpTo(StdinLines, MaxTargets)}
    \cup
    {Input([BaseArgs EXCEPT !.target_file = Some("targets.txt")],
           [BaseEnv EXCEPT !.file = Some(<<Ip1>>)])}

PortInputs ==
    {Input([BaseArgs EXCEPT !.ports = ps, !.top100 = t100, !.top1000 = t1000],
           BaseEnv) :
        ps \in OptionOf(NonEmptySeqsUpTo(PortTexts, MaxPorts)),
        t100 \in BOOLEAN, t1000 \in BOOLEAN}

RateInputs ==
    {Input([BaseArgs EXCEPT !.rate_limit = rl, !.retries = rt, !.sanic = sn],
           BaseEnv) :
        rl \in OptionOf(RateLimitTexts), rt \in OptionOf(RetriesTexts),
        sn \in BOOLEAN}

OtherInputs ==
    {Input([BaseArgs EXCEPT !.listening_port = Some(lp), !.timeout = tm,
                            !.source_ip = ips, !.output_format = fmt],
           BaseEnv) :
        lp \in ListeningPortTexts, tm \in OptionOf(TimeoutTexts),
        ips \in OptionOf(NonEmptySeqsUpTo(SourceIpTexts, MaxSourceIps)),
        fmt \in OptionOf(OutputFormats)}

StreamInputs ==
    {Input([BaseArgs EXCEPT !.quiet = q, !.stream = st, !.sanic = sn],
           [BaseEnv EXCEPT !.tty = tty]) :
        q \in BOOLEAN, st \in BOOLEAN, sn \in BOOLEAN, tty \in BOOLEAN}

\* Command lines that name a TOML file, and argument lists a TOML file holds.
TomlCommandLines ==
    LET toml == [NoArgs EXCEPT !.toml_config = Some("armada.toml")]
    IN  { toml,
          [toml EXCEPT !.ports = Some(<<Port80, <<"x">>>>)],
          [toml EXCEPT !.targets = Some(<<<<"x">>>>)],
          [toml EXCEPT !.rate_limit = Some(<<"x">>), !.retries = Some(<<"7">>)],
          [toml EXCEPT !.timeout = Some(<<"x">>), !.listening_port = Some(<<"x">>)],
          [toml EXCEPT !.source_ip = Some(<<<<"x">>>>), !.sanic = TRUE],
          [toml EXCEPT !.quiet = TRUE, !.stream = TRUE, !.top100 = TRUE],
          [toml EXCEPT !.top100 = TRUE, !.top1000 = TRUE] }

TomlArgLists ==
    { BaseArgs,
      [BaseArgs EXCEPT !.rate_limit = Some(<<"1">>), !.retries = Some(<<"0">>)],
      [BaseArgs EXCEPT !.ports = None, !.top1000 = TRUE, !.stream = TRUE],
      [BaseArgs EXCEPT !.ports = None, !.top100 = TRUE, !.quiet = TRUE,
                       !.stream = TRUE],
      [BaseArgs EXCEPT !.ports = None],
      [BaseArgs EXCEPT !.ports = None, !.toml_config = Some("other.toml")],
      [BaseArgs EXCEPT !.retries = Some(<<"x">>)],
      [BaseArgs EXCEPT !.targets = None, !.sanic = TRUE] }

TomlInputs ==
    {Input(a, [BaseEnv EXCEPT !.toml = t, !.tty = tty,
                              !.stdin = <<Ok(Ip1), Err>>]) :
        a \in TomlCommandLines, t \in OptionOf(TomlArgLists), tty \in BOOLEAN}

\* Runs in which the listening port is left to chance.
RandomPortInputs ==
    { Input([BaseArgs EXCEPT !.listening_port = None], BaseEnv),
      Input([NoArgs EXCEPT !.toml_config = Some("armada.toml"), !.quiet = TRUE],
            [BaseEnv EXCEPT !.toml = Some([BaseArgs EXCEPT !.listening_port = None])]) }

Inputs ==
    TargetInputs \cup PortInputs \cup RateInputs \cup OtherInputs
        \cup StreamInputs \cup TomlInputs \cup RandomPortInputs

(***************************************************************************)
(* The program.  argv and env are the inputs; pc is the statement of       *)
(* get_armada_config about to run, or how the run ended: "done" (the       *)
(* configuration is returned), "exit" (clap reported a usage error and     *)
(* exited), "panicked".  locals maps each local variable bound so far to   *)
(* its value; config is what get_armada_config has returned; failure is    *)
(* the line of args.rs at which the run ended without one (0: none).       *)
(***************************************************************************)
VARIABLES argv, env, pc, locals, config, failure

vars == <<argv, env, pc, locals, config, failure>>

Init ==
    /\ \E i \in Inputs : argv = i.argv /\ env = i.env
    /\ pc = "get_matches"
    /\ locals = <<>>
    /\ config = None
    /\ failure = 0

\* let <name> = <a getter's result>, or the getter's panic
Let(name, r, next) ==
    /\ IF r.ok
       THEN locals' = (name :> r.val) @@ locals /\ pc' = next /\ failure' = 0
       ELSE locals' = locals /\ pc' = "panicked" /\ failure' = r.line
    /\ UNCHANGED <<argv, env, config>>

\* let mut matches = app_config().get_matches();
GetMatches ==
    /\ pc = "get_matches"
    /\ LET r == get_matches_from(argv)
       IN  IF r.ok
           THEN locals' = ("matches" :> r.val) /\ pc' = "toml_config"
                /\ failure' = 0
           ELSE locals' = locals /\ pc' = "exit" /\ failure' = 33
    /\ UNCHANGED <<argv, env, config>>

\* a faulty variant: the arguments of the TOML file are checked, and the
\* command line stays in use
LoadTomlConfig_KeepsCommandLine ==
    /\ pc = "toml_config"
    /\ IF IsSome(locals.matches.toml_config)
       THEN LET args == get_toml_config(Unwrap(locals.matches.toml_config), env)
            IN  IF ~args.ok
                THEN pc' = "panicked" /\ failure' = 35
                ELSE IF get_matches_from(args.val).ok
                     THEN pc' = "targets" /\ failure' = 0
                     ELSE pc' = "exit" /\ failure' = 36
       ELSE pc' = "targets" /\ failure' = 0
    /\ UNCHANGED <<argv, env, locals, config>>

\* if matches.is_present("toml_config") { ... matches = ...get_matches_from(args) }
LoadTomlConfig ==
    /\ pc = "toml_config"
    /\ IF IsSome(locals.matches.toml_config)
       THEN LET args == get_toml_config(Unwrap(locals.matches.toml_config), env)
            IN  IF ~args.ok
                THEN locals' = locals /\ pc' = "panicked" /\ failure' = 35
                ELSE IF get_matches_from(args.val).ok
                     THEN /\ locals' = [locals EXCEPT
                                 !.matches = get_matches_from(args.val).val]
                          /\ pc' = "targets"
                          /\ failure' = 0
                     ELSE locals' = locals /\ pc' = "exit" /\ failure' = 36
       ELSE locals' = locals /\ pc' = "targets" /\ failure' = 0
    /\ UNCHANGED <<argv, env, config>>

LetTargets ==
    /\ pc = "targets"
    /\ Let("targets", get_targets(locals.matches, env), "ports")

LetPorts ==
    /\ pc = "ports"
    /\ Let("ports", get_ports(locals.matches), "quiet_mode")

LetQuietMode ==
    /\ pc = "quiet_mode"
    /\ Let("quiet_mode", get_quiet_mode(locals.matches), "rate_limit")

LetRateLimit ==
    /\ pc = "rate_limit"
    /\ Let("rate_limit", get_rate_limit(locals.matches), "listening_port")

LetListeningPort ==
    /\ pc = "listening_port"
    /\ \E r \in get_listening_port(locals.matches) :
           Let("listening_port", r, "output_format")

LetOutputFormat ==
    /\ pc = "output_format"
    /\ Let("output_format", get_output_format(locals.matches), "retries")

LetRetries ==
    /\ pc = "retries"
    /\ Let("retries", get_retries(locals.matches), "timeout")

LetTimeout ==
    /\ pc = "timeout"
    /\ Let("timeout", get_timeout(locals.matches), "source_ips")

LetSourceIps ==
    /\ pc = "source_ips"
    /\ Let("source_ips", get_source_ip_addresses(locals.matches), "stream_results")

LetStreamResults ==
    /\ pc = "stream_results"
    /\ Let("stream_results", get_stream_results(locals.matches), "check_stream")

\* a faulty variant: the terminal test is inverted
StreamingAllowed_TtyInverted(stream_results, quiet_mode, stdout_is_tty) ==
    ~(stream_results /\ ~quiet_mode /\ ~stdout_is_tty)

\* whether the streaming check lets the run go on
StreamingAllowed(stream_results, quiet_mode, stdout_is_tty) ==
    ~(stream_results /\ ~quiet_mode /\ stdout_is_tty)

\* if stream_results { if !quiet_mode && atty::is(Stream::Stdout) { panic!(..) } }
CheckStreaming ==
    /\ pc = "check_stream"
    /\ IF StreamingAllowed(locals.stream_results, locals.quiet_mode, env.tty)
       THEN pc' = "return" /\ failure' = 0
       ELSE pc' = "panicked" /\ failure' = 52
    /\ UNCHANGED <<argv, env, locals, config>>

ArmadaConfig(l) ==
    [targets |-> l.targets, ports |-> l.ports, quiet_mode |-> l.quiet_mode,
     rate_limit |-> l.rate_limit, listening_port |-> l.listening_port,
     output_format |-> l.output_format, retries |-> l.retries,
     timeout |-> l.timeout, source_ips |-> l.source_ips,
     stream_results |-> l.stream_results]

\* ArmadaConfig { targets, ports, ... }
Return ==
    /\ pc = "return"
    /\ config' = Some(ArmadaConfig(locals))
    /\ pc' = "done"
    /\ UNCHANGED <<argv, env, locals, failure>>

Next ==
    \/ GetMatches
    \/ LoadTomlConfig
    \/ LetTargets
    \/ LetPorts
    \/ LetQuietMode
    \/ LetRateLimit
    \/ LetListeningPort
    \/ LetOutputFormat
    \/ LetRetries
    \/ LetTimeout
    \/ LetSourceIps
    \/ LetStreamResults
    \/ CheckStreaming
    \/ Return

Spec == Init /\ [][Next]_vars

(***************************************************************************)
(* Properties.                                                             *)
(***************************************************************************)
Bound(name) == name \in DOMAIN locals

Returned == IsSome(config)

\* the arguments the getters read
Effective == locals.matches

\* a port text of the form a-b with a > b
ReversedRange(s) ==
    /\ Captures(s).ok
    /\ IsSome(Captures(s).val.g2)
    /\ ParseU16(Unwrap(Captures(s).val.g1)).ok
    /\ ParseU16(Unwrap(Captures(s).val.g2)).ok
    /\ ParseU16(Unwrap(Captures(s).val.g1)).val
           > ParseU16(Unwrap(Captures(s).val.g2)).val

(***************************************************************************)
(* C1.  A port range whose start is greater than its end is rejected by    *)
(* get_ports: get_ports never returns a PortIterator when one of the port  *)
(* strings is a range a-b with a > b, and add_range is never called with   *)
(* start > end.                                                            *)
(***************************************************************************)
C1_ReversedRangeRejected ==
    Bound("ports") =>
        /\ \A i \in 1..Len(PortStrings(Effective).val) :
               ~ReversedRange(PortStrings(Effective).val[i])
        /\ \A i \in 1..Len(locals.ports) :
               locals.ports[i].op = "add_range"
                   => locals.ports[i].start <= locals.ports[i].end

(***************************************************************************)
(* C2.  A returned configuration streams only in quiet mode or when        *)
(* standard output is not a terminal; with --stream in effect, quiet mode  *)
(* off and standard output a terminal, the run panics at the streaming     *)
(* check and returns nothing.                                              *)
(***************************************************************************)
C2_StreamRequiresQuietOrPipe ==
    /\ Returned =>
           (Unwrap(config).stream_results
                => Unwrap(config).quiet_mode \/ ~env.tty)
    /\ (/\ Bound("stream_results") /\ Bound("quiet_mode")
        /\ locals.stream_results /\ ~locals.quiet_mode /\ env.tty)
           => /\ ~Returned
              /\ pc \in {"check_stream", "panicked"}
              /\ pc = "panicked" => failure = 52

C2_Witness ==
    /\ Returned
    /\ Unwrap(config).stream_results
    /\ ~Unwrap(config).quiet_mode
    /\ ~env.tty

C2_WitnessPanic == pc = "panicked" /\ failure = 52

(***************************************************************************)
(* C3.  The rate limit get_rate_limit returns is None exactly when --sanic *)
(* is present or --rate-limit is 0, Some(r) when --rate-limit is r > 0     *)
(* without --sanic, Some(10000) when neither is given, and never Some(0).  *)
(***************************************************************************)
C3_RateLimitMapping ==
    Bound("rate_limit") =>
        LET m == Effective
            given == IsSome(m.rate_limit)
            r == ParseUsize(Unwrap(m.rate_limit)).val
        IN  /\ locals.rate_limit = None <=> (m.sanic \/ (given /\ r = 0))
            /\ (given /\ ~m.sanic /\ r > 0) => locals.rate_limit = Some(r)
            /\ (~given /\ ~m.sanic) => locals.rate_limit = Some(10000)
            /\ locals.rate_limit # Some(0)

C3_Witness ==
    /\ Bound("rate_limit")
    /\ IsSome(Effective.rate_limit)
    /\ Effective.sanic
    /\ ParseUsize(Unwrap(Effective.rate_limit)).val > 0
    /\ locals.rate_limit = None

(***************************************************************************)
(* C4.  get_retries returns the value of --retries when it is given (also  *)
(* with --sanic), otherwise 0 with --sanic, otherwise 2; --retries 0 gives *)
(* 0 retries.                                                              *)
(***************************************************************************)
C4_RetriesMapping ==
    Bound("retries") =>
        LET m == Effective
        IN  /\ IsSome(m.retries)
                => locals.retries = ParseU8(Unwrap(m.retries)).val
            /\ (~IsSome(m.retries) /\ m.sanic) => locals.retries = 0
            /\ (~IsSome(m.retries) /\ ~m.sanic) => locals.retries = 2
            /\ m.retries = Some(<<"0">>) => locals.retries = 0

C4_Witness ==
    /\ Bound("retries")
    /\ IsSome(Effective.retries)
    /\ Effective.sanic
    /\ locals.retries = 2

(***************************************************************************)
(* C5.  Configuration errors are fatal before a configuration exists.  A   *)
(* local is bound, and a configuration returned, only when the texts its   *)
(* getter reads are well formed: every target string is an IP address or a *)
(* CIDR block, every port string is digits or digits-digits with numbers   *)
(* of at most 65535, and --rate-limit, --listening-port, --retries,        *)
(* --timeout and every --source-ip parse.  A run with a malformed text     *)
(* ends in a failure and returns nothing.                                  *)
(***************************************************************************)
BadTarget(s) == ~ParseIpAddr(s).ok /\ ~ParseIpCidr(s).ok

BadPort(s) ==
    LET parts == Split(s, "-")
    IN  \/ Len(parts) > 2
        \/ \E i \in 1..Len(parts) :
               \/ parts[i] = <<>>
               \/ ~AllAsciiDigits(parts[i])
               \/ ~ParseU16(parts[i]).ok

BadOption(o, Parse(_)) == IsSome(o) /\ ~Parse(Unwrap(o)).ok

BadTargets(m, e) ==
    LET strs == IF IsSome(m.targets) THEN Unwrap(m.targets)
                ELSE IF IsSome(m.target_file)
                     THEN IF IsSome(e.file) THEN Unwrap(e.file) ELSE <<>>
                     ELSE FilterMapOk(e.stdin)
    IN  \E i \in 1..Len(strs) : BadTarget(strs[i])

BadPorts(m) ==
    IsSome(m.ports) /\ \E i \in 1..Len(Unwrap(m.ports)) : BadPort(Unwrap(m.ports)[i])

BadSourceIps(m) ==
    IsSome(m.source_ip)
        /\ \E i \in 1..Len(Unwrap(m.source_ip)) :
               ~ParseIpAddr(Unwrap(m.source_ip)[i]).ok

C5_ConfigErrorsFatal ==
    pc \notin {"get_matches", "toml_config"} /\ Bound("matches") =>
        LET m == Effective
        IN  /\ Bound("targets") => ~BadTargets(m, env)
            /\ Bound("ports") => ~BadPorts(m)
            /\ Bound("rate_limit") => ~BadOption(m.rate_limit, ParseUsize)
            /\ Bound("listening_port") => ~BadOption(m.listening_port, ParseU16)
            /\ Bound("retries") => ~BadOption(m.retries, ParseU8)
            /\ Bound("timeout") => ~BadOption(m.timeout, ParseU64)
            /\ Bound("source_ips") => ~BadSourceIps(m)
            /\ (\/ BadTargets(m, env) \/ BadPorts(m)
                \/ BadOption(m.rate_limit, ParseUsize)
                \/ BadOption(m.listening_port, ParseU16)
                \/ BadOption(m.retries, ParseU8)
                \/ BadOption(m.timeout, ParseU64)
                \/ BadSourceIps(m))
                   => /\ ~Returned
                      /\ pc \notin {"return", "done"}
            /\ pc \in {"panicked", "exit"} => ~Returned /\ failure # 0

C5_Witness ==
    /\ pc = "panicked"
    /\ failure = 197
    /\ Bound("retries")
    /\ BadOption(Effective.timeout, ParseU64)
    /\ ~Returned

(***************************************************************************)
(* C6.  Without --listening-port the listening port is a random port of    *)
(* 50000-60000: every port of that range can be chosen and no other; with  *)
(* --listening-port it is the parsed 16-bit value.                         *)
(***************************************************************************)
\* the ports the run can bind at this point
ListeningPortChoices == {r.val : r \in {o \in get_listening_port(Effective) : o.ok}}

C6_ListeningPortRange ==
    /\ (pc = "listening_port" /\ ~IsSome(Effective.listening_port))
           => ListeningPortChoices = 50000..60000
    /\ Bound("listening_port") =>
           IF IsSome(Effective.listening_port)
           THEN locals.listening_port = ParseU16(Unwrap(Effective.listening_port)).val
           ELSE locals.listening_port \in 50000..60000

\* what the code does: the port is one of 50000..59999, each of which can be chosen
C6_HalfOpenRange ==
    /\ (pc = "listening_port" /\ ~IsSome(Effective.listening_port))
           => ListeningPortChoices = 50000..59999
    /\ Bound("listening_port") =>
           IF IsSome(Effective.listening_port)
           THEN locals.listening_port = ParseU16(Unwrap(Effective.listening_port)).val
           ELSE locals.listening_port \in 50000..59999

C6_RandomPortChosen ==
    /\ Bound("listening_port")
    /\ ~IsSome(Effective.listening_port)
    /\ locals.listening_port = 59999

(***************************************************************************)
(* C7.  With --toml-config on the command line, every field of a returned  *)
(* configuration is what the getters yield on the argument list of the     *)
(* TOML file; nothing else of the command line enters it (the listening    *)
(* port is the TOML list's, or a random one when that list has none).      *)
(***************************************************************************)
C7_TomlReplacesCommandLine ==
    (Returned /\ IsSome(argv.toml_config)) =>
        /\ IsSome(env.toml)
        /\ get_matches_from(Unwrap(env.toml)).ok
        /\ LET m == get_matches_from(Unwrap(env.toml)).val
               c == Unwrap(config)
           IN  /\ Ok(c.targets) = get_targets(m, env)
               /\ Ok(c.ports) = get_ports(m)
               /\ c.quiet_mode = m.quiet
               /\ Ok(c.rate_limit) = get_rate_limit(m)
               /\ Ok(c.listening_port) \in get_listening_port(m)
               /\ c.output_format = Unwrap(m.output_format)
               /\ Ok(c.retries) = get_retries(m)
               /\ Ok(c.timeout) = get_timeout(m)
               /\ Ok(c.source_ips) = get_source_ip_addresses(m)
               /\ c.stream_results = m.stream

C7_Witness ==
    /\ Returned
    /\ IsSome(argv.toml_config)
    /\ argv.quiet /\ argv.stream /\ argv.top100
    /\ ~Unwrap(config).quiet_mode
    /\ ~Unwrap(config).stream_results
    /\ Unwrap(config).ports = <<[op |-> "add_port", port |-> 80]>>

(***************************************************************************)
(* C8.  get_targets registers the target strings in input order: the       *)
(* strings are those of --targets if present, else the lines of the target *)
(* file if --target_file is present, else the lines read from standard     *)
(* input; the i-th registration is add_ip of the i-th string when that     *)
(* string is an IP address and add_cidr of it otherwise, and there are as  *)
(* many registrations as strings.                                          *)
(***************************************************************************)
C8_TargetsInInputOrder ==
    Bound("targets") =>
        LET m == Effective
            strs == IF IsSome(m.targets) THEN Unwrap(m.targets)
                    ELSE IF IsSome(m.target_file) THEN Unwrap(env.file)
                    ELSE FilterMapOk(env.stdin)
        IN  /\ Len(locals.targets) = Len(strs)
            /\ \A i \in 1..Len(strs) :
                   IF ParseIpAddr(strs[i]).ok
                   THEN locals.targets[i] =
                            [op |-> "add_ip", ip |-> ParseIpAddr(strs[i]).val]
                   ELSE locals.targets[i] =
                            [op |-> "add_cidr", cidr |-> ParseIpCidr(strs[i]).val]

C8_Witness ==
    /\ Bound("targets")
    /\ Len(locals.targets) = 2
    /\ locals.targets[1].op = "add_cidr"
    /\ locals.targets[2].op = "add_ip"
    /\ ~IsSome(Effective.targets)
    /\ ~IsSome(Effective.target_file)

(***************************************************************************)
(* C9.  get_ports registers, in input order, one add_port(n) for each port *)
(* string n and one add_range(a, b) for each port string a-b, all numbers  *)
(* in 0..65535; a port string the pattern matches has its first group, so  *)
(* the catch-all arm of the match on (start_port, end_port), line 140, is  *)
(* never taken.                                                            *)
(***************************************************************************)
C9_PortsRegistered ==
    /\ failure # 140
    /\ Bound("ports") =>
        LET strs == PortStrings(Effective).val
        IN  /\ Len(locals.ports) = Len(strs)
            /\ \A i \in 1..Len(strs) :
                   LET parts == Split(strs[i], "-")
                       reg == locals.ports[i]
                   IN  /\ Captures(strs[i]).ok
                       /\ IsSome(Captures(strs[i]).val.g1)
                       /\ IF Len(parts) = 1
                          THEN /\ reg.op = "add_port"
                               /\ Ok(reg.port) = ParseU16(parts[1])
                               /\ reg.port \in 0..65535
                          ELSE /\ Len(parts) = 2
                               /\ reg.op = "add_range"
                               /\ Ok(reg.start) = ParseU16(parts[1])
                               /\ Ok(reg.end) = ParseU16(parts[2])
                               /\ reg.start \in 0..65535
                               /\ reg.end \in 0..65535

C9_Witness ==
    /\ Bound("ports")
    /\ Len(locals.ports) = 2
    /\ locals.ports[1] = [op |-> "add_range", start |-> 1, end |-> 3]
    /\ locals.ports[2] = [op |-> "add_port", port |-> 65535]

(***************************************************************************)
(* C10.  The ports come from exactly one source: the values of --ports if  *)
(* given, otherwise the TOP_100 list if --top100 is set, otherwise the     *)
(* TOP_1000 list if --top1000 is set; with none of the three get_ports     *)
(* panics (line 113), so the ports of a run are never built from zero port *)
(* strings nor from two sources.                                           *)
(***************************************************************************)
C10_OnePortSource ==
    /\ (pc \notin {"get_matches", "toml_config", "targets", "ports"}
            /\ Bound("matches") /\ Bound("targets")
            /\ ~IsSome(Effective.ports) /\ ~Effective.top100 /\ ~Effective.top1000)
           => pc = "panicked" /\ failure = 113 /\ ~Bound("ports")
    /\ Bound("ports") =>
        LET m == Effective
            source == IF IsSome(m.ports) THEN Unwrap(m.ports)
                      ELSE IF m.top100 THEN Split(TOP_100, ",")
                      ELSE Split(TOP_1000, ",")
        IN  /\ IsSome(m.ports) \/ m.top100 \/ m.top1000
            /\ Len(source) >= 1
            /\ Len(locals.ports) = Len(source)
            /\ Ok(locals.ports) = FoldPorts(<<>>, source)
            /\ Returned => Unwrap(config).ports = locals.ports

C10_Witness ==
    /\ Returned
    /\ ~IsSome(Effective.ports)
    /\ Effective.top100
    /\ Len(Unwrap(config).ports) = 3

C10_WitnessNoSource == pc = "panicked" /\ failure = 113

=============================================================================
